---- MODULE Spec2Model ----
(***************************************************************************)
(* Model of nova/scheduler/api.py: the reroute_compute decorator (local    *)
(* lookup, then delegation to child zones), the two zone fan-outs          *)
(* (child_zone_helper, call_zone_method), the per-zone novaclient command  *)
(* and the reduction of the zone responses (unmarshall_result).            *)
(***************************************************************************)
EXTENDS Integers, Sequences, FiniteSets, TLC

(***************************************************************************)
(* Bounds of the model.                                                    *)
(***************************************************************************)
MaxZones == 2
MaxLocalId == 2

(***************************************************************************)
(* Python values.  Every value is a record [t, v] so that values of        *)
(* different Python types can be compared.                                 *)
(***************************************************************************)
None == [t |-> "none", v |-> 0]
IntVal(n) == [t |-> "int", v |-> n]
UuidVal(n) == [t |-> "uuid", v |-> n]
ObjVal(n) == [t |-> "obj", v |-> n]

SelfObj == ObjVal(0)
CtxObj == ObjVal(1)
ExtraObj == ObjVal(2)

UuidNames == {1, 2}
LocalIds == 1..MaxLocalId
Identifiers == {IntVal(n) : n \in LocalIds} \cup {UuidVal(u) : u \in UuidNames}

\* Python truth value of a value ("not x" is ~Truthy(x)).
Truthy(x) == ~(x.t = "none" \/ (x.t = "int" /\ x.v = 0) \/ (x.t = "tuple" /\ Len(x.v) = 0))

\* utils.is_uuid_like: the identifier is Global-shaped.
is_uuid_like(x) == x.t = "uuid"

\* dict.get(key, None)
KwGet(kwargs, key) == IF key \in DOMAIN kwargs THEN kwargs[key] ELSE None

\* list.pop(i) followed by list.insert(i, x), i a 0-based Python index < len.
PopInsert(args, i, x) == [k \in 1..Len(args) |-> IF k = i + 1 THEN x ELSE args[k]]

(***************************************************************************)
(* The call shapes of a handler f(self, context, instance_id, ...): the    *)
(* identifier and the context are each passed once, positionally or by     *)
(* keyword, optionally with one more keyword argument.                     *)
(***************************************************************************)
KwOf(ctxKw, idKw, extraKw, id) ==
    [k \in (IF ctxKw THEN {"context"} ELSE {}) \cup
           (IF idKw THEN {"instance_id"} ELSE {}) \cup
           (IF extraKw THEN {"extra"} ELSE {}) |->
        IF k = "context" THEN CtxObj ELSE IF k = "instance_id" THEN id ELSE ExtraObj]

CallShapes(id) ==
    {[args |-> <<SelfObj, CtxObj, id>>, kwargs |-> KwOf(FALSE, FALSE, x, id)] : x \in BOOLEAN}
    \cup {[args |-> <<SelfObj, CtxObj, id, ExtraObj>>, kwargs |-> KwOf(FALSE, FALSE, FALSE, id)]}
    \cup {[args |-> <<SelfObj, CtxObj>>, kwargs |-> KwOf(FALSE, TRUE, x, id)] : x \in BOOLEAN}
    \cup {[args |-> <<SelfObj>>, kwargs |-> KwOf(TRUE, TRUE, x, id)] : x \in BOOLEAN}

(***************************************************************************)
(* reroute_compute.get_collection_context_and_id (lines 282-291).          *)
(* err is the IndexError of args[1] / args[2] on a too short args.         *)
(***************************************************************************)
get_collection_context_and_id(args, kwargs) ==
    LET context0 == KwGet(kwargs, "context")
        instance_id0 == KwGet(kwargs, "instance_id")
        ctxFromArgs == Len(args) > 0 /\ ~Truthy(context0)
        idFromArgs == Len(args) > 1 /\ ~Truthy(instance_id0)
    IN  IF (ctxFromArgs /\ Len(args) < 2) \/ (idFromArgs /\ Len(args) < 3)
        THEN [err |-> "IndexError", collection |-> "servers", context |-> None, id |-> None]
        ELSE [err |-> "",
              collection |-> "servers",
              context |-> IF ctxFromArgs THEN args[2] ELSE context0,
              id |-> IF idFromArgs THEN args[3] ELSE instance_id0]

(***************************************************************************)
(* reroute_compute.replace_uuid_with_id (lines 293-305).                   *)
(***************************************************************************)
ReplaceUuidKeywordOnly(args, kwargs, replacement_id) ==
    IF "instance_id" \in DOMAIN kwargs
    THEN [err |-> "", args |-> args,
          kwargs |-> [kwargs EXCEPT !["instance_id"] = replacement_id]]
    ELSE [err |-> "", args |-> args, kwargs |-> kwargs]

replace_uuid_with_id(args, kwargs, replacement_id) ==
    IF "instance_id" \in DOMAIN kwargs
    THEN [err |-> "", args |-> args,
          kwargs |-> [kwargs EXCEPT !["instance_id"] = replacement_id]]
    ELSE IF Len(args) > 1
    THEN IF Len(args) < 3
         THEN [err |-> "IndexError", args |-> args, kwargs |-> kwargs]
         ELSE [err |-> "", args |-> PopInsert(args, 2, replacement_id), kwargs |-> kwargs]
    ELSE [err |-> "", args |-> args, kwargs |-> kwargs]

(***************************************************************************)
(* State.                                                                  *)
(***************************************************************************)
VARIABLES
    pc,                   \* position of the running operation
    instances,            \* local db: uuid -> local integer id, 0 when absent
    enable_zone_routing,  \* FLAGS.enable_zone_routing
    directory,            \* db.zone_get_all: the registered child zones, in order
    zone_table,           \* db: the api_url each zone id is registered with
    call,                 \* args / kwargs the wrapped function was called with
    item,                 \* item_id_or_uuid extracted by the wrapper
    f_args,               \* args / kwargs after the wrapper's rewriting
    attempt_reroute,      \* wrapped_f's local flag
    handler_calls,        \* log: the args / kwargs f was invoked with
    resolver_reads,       \* log: number of db.instance_get_by_uuid calls
    dir_reads,            \* log: number of db.zone_get_all calls
    outcome,              \* how the running operation ended
    response,             \* what the redirect_handler boundary gave its caller
    fanout,               \* the fan-out that is running, "" when none
    zone_list,            \* the zones the fan-out iterates over
    zone_urls,            \* the api_url of each zone object of zone_list, as read
    zone_env,             \* how the zone at each api_url behaves during the fan-out
    errors_to_ignore,     \* call_zone_method's normalised errors_to_ignore
    method_name,          \* the method asked of every zone
    op_item,              \* the item id asked of every zone
    tasks,                \* the green threads, in spawn order
    idx,                  \* position of the spawning loop / of the imap consumer
    collected,            \* results the imap consumer has taken so far
    collection_method,    \* api_url of the client whose method the closure variable
                          \* names, 0 before
    contacted,            \* log: api_urls a client authenticated against
    skipped,              \* log: zones skipped with a warning
    finish_order,         \* log: the green threads in the order they finished
    aggregated            \* result of unmarshall_result

execVars == <<call, item, f_args, attempt_reroute, handler_calls, resolver_reads, response>>
envVars == <<instances, enable_zone_routing, directory, zone_table>>
fanVars == <<fanout, zone_list, zone_urls, zone_env, errors_to_ignore, method_name,
             op_item, tasks,
             idx, collected, collection_method, contacted, skipped, finish_order,
             aggregated>>
fanInputs == <<fanout, zone_list, zone_urls, zone_env, errors_to_ignore, method_name,
               op_item>>

ZoneIds == 1..MaxZones

\* The zone lists db.zone_get_all can return: distinct zones, in any order.
Directories ==
    {s \in UNION {[1..n -> ZoneIds] : n \in 0..MaxZones} :
        \A i, j \in 1..Len(s) : i # j => s[i] # s[j]}

NoOutcome == [kind |-> "none", exc |-> "", val |-> None]
Raise(e, v) == [kind |-> "raise", exc |-> e, val |-> v]
Return(v) == [kind |-> "return", exc |-> "", val |-> v]

\* The value the wrapped function f computes from the arguments it is given.
HandlerValue(a) == [t |-> "handler", v |-> a]

(***************************************************************************)
(* db.instance_get_by_uuid: the local resolver.  0 is InstanceNotFound.    *)
(***************************************************************************)
instance_get_by_uuid(db, item_uuid) == db[item_uuid.v]

(***************************************************************************)
(* wrapped_f, lines 247-268: extract the identifier; for a UUID, look it   *)
(* up locally, and on a hit replace it by the integer id in the arguments. *)
(***************************************************************************)
WrappedFLookupNoUuidCheck(args, kwargs, db) ==
    LET got == get_collection_context_and_id(args, kwargs)
        id == IF is_uuid_like(got.id) THEN instance_get_by_uuid(db, got.id) ELSE 0
        rep == replace_uuid_with_id(args, kwargs, IntVal(id))
        same == [err |-> "", item |-> got.id, attempt_reroute |-> FALSE,
                 args |-> args, kwargs |-> kwargs, resolver_reads |-> 0]
    IN  IF got.err # "" THEN [same EXCEPT !.err = got.err]
        ELSE IF id = 0 THEN [same EXCEPT !.attempt_reroute = TRUE, !.resolver_reads = 1]
        ELSE [same EXCEPT !.err = rep.err, !.args = rep.args, !.kwargs = rep.kwargs,
                          !.resolver_reads = 1]

wrapped_f_lookup(args, kwargs, db) ==
    LET got == get_collection_context_and_id(args, kwargs)
        id == IF is_uuid_like(got.id) THEN instance_get_by_uuid(db, got.id) ELSE 0
        rep == replace_uuid_with_id(args, kwargs, IntVal(id))
        same == [err |-> "", item |-> got.id, attempt_reroute |-> FALSE,
                 args |-> args, kwargs |-> kwargs, resolver_reads |-> 0]
    IN  IF got.err # "" THEN [same EXCEPT !.err = got.err]
        ELSE IF ~is_uuid_like(got.id) THEN same
        ELSE IF id = 0 THEN [same EXCEPT !.attempt_reroute = TRUE, !.resolver_reads = 1]
        ELSE [same EXCEPT !.err = rep.err, !.args = rep.args, !.kwargs = rep.kwargs,
                          !.resolver_reads = 1]

(***************************************************************************)
(* reroute_compute._route_to_child_zones (lines 228-243), as called at     *)
(* line 271.  The method is defined without self, so the bound call        *)
(* self._route_to_child_zones(context, collection, item_uuid) passes       *)
(* RouteActuals arguments to a function of RouteFormals parameters and     *)
(* Python raises TypeError before the body runs.  In the body the names    *)
(* InstanceNotFound and self are bound nowhere in the module, so each of   *)
(* its three branches would end in NameError.                              *)
(***************************************************************************)
RouteFormals == 3
RouteActuals == 4

_route_to_child_zones(flag, zones, item_uuid) ==
    IF RouteActuals # RouteFormals
    THEN [out |-> Raise("TypeError", None), dir_reads |-> 0]
    ELSE IF ~flag
    THEN [out |-> Raise("NameError", None), dir_reads |-> 0]
    ELSE [out |-> Raise("NameError", None), dir_reads |-> 1]

(***************************************************************************)
(* redirect_handler (lines 331-337): the boundary around a call that may   *)
(* end in RedirectResult.                                                  *)
(***************************************************************************)
redirect_handler(o) ==
    IF o.kind = "raise" /\ o.exc = "RedirectResult" THEN Return(o.val) ELSE o

(***************************************************************************)
(* Child zones.  An api_url is named by the id of the zone registered with *)
(* it when the operation starts.  The zone at an api_url behaves in one    *)
(* way for the whole fan-out:                                              *)
(*   "authfail"  nova.authenticate() raises novaclient BadRequest          *)
(*   "found"     the zone has the resource and the call returns it         *)
(*   "act_none"  as "found", but a mutating action on it returns None      *)
(*   "NotFound"  the call raises novaclient.NotFound                       *)
(*   "ErrA"      the call raises another exception, of type ErrA           *)
(*   "ValueError" the call raises ValueError                               *)
(***************************************************************************)
Profiles == {"authfail", "found", "act_none", "NotFound", "ErrA", "ValueError"}

\* The zone behaviours of a fan-out over zones: only zones of the list vary.
ZoneEnvs(zones) ==
    {e \in [ZoneIds -> Profiles] :
        \A z \in ZoneIds : (\A i \in 1..Len(zones) : zones[i] # z) => e[z] = "found"}

\* Attribute names are strings, here sequences of characters.
F_id == <<"i", "d">>
F_name == <<"n", "a", "m", "e">>
F_info == <<"_", "i", "n", "f", "o">>
F_manager == <<"m", "a", "n", "a", "g", "e", "r">>

\* The novaclient resource object zone z returns: its __dict__.
ResVal(d) == [t |-> "res", v |-> d]
TupleVal(s) == [t |-> "tuple", v |-> s]
DictVal(d) == [t |-> "dict", v |-> d]
Payload(z) ==
    ResVal([k \in {F_id, F_name, F_info, F_manager} |->
               IF k = F_id THEN z
               ELSE IF k = F_name THEN 10 + z
               ELSE IF k = F_info THEN 20 + z
               ELSE 30 + z])

\* The object a mutating action on zone z's resource returns.
ActionPayload(z) ==
    ResVal([k \in {F_id, F_name, F_info, F_manager} |->
               IF k = F_id THEN z
               ELSE IF k = F_name THEN 40 + z
               ELSE IF k = F_info THEN 20 + z
               ELSE 30 + z])

\* What a read (or any collection method) on zone z's authenticated client does.
ZoneCall(env, z) ==
    IF env[z] \in {"found", "act_none"} THEN Return(Payload(z)) ELSE Raise(env[z], None)

\* What getattr(result, method_name)() does on the resource read from zone z.
ZoneAction(env, z) ==
    IF env[z] = "act_none" THEN Return(None) ELSE Return(ActionPayload(z))

MethodNames == {"get", "GET", "pause"}

(***************************************************************************)
(* _issue_novaclient_command (lines 164-182) on the client of zone z:      *)
(* manager.get(int(item_id)), or manager.find(name=item_id) when int()     *)
(* raises ValueError; NotFound gives None; a method other than get / find  *)
(* is then called on the result.                                           *)
(***************************************************************************)
IsNumeric(item_id) == item_id.t = "int"
LowerKeepsCase(name) == name

Lower(name) == IF name = "GET" THEN "get" ELSE name

\* What a lookup that returned or raised as read leaves to do (lines 175-181):
\* NotFound gives None, another exception propagates, and a resource is
\* returned, or has the method called on it next.
LookupResult(read, calls, name) ==
    IF read.kind = "raise" /\ read.exc = "NotFound"
    THEN [out |-> Return(None), calls |-> calls, next |-> "done"]
    ELSE IF read.kind = "raise"
    THEN [out |-> read, calls |-> calls, next |-> "done"]
    ELSE [out |-> read, calls |-> calls,
          next |-> IF Lower(name) \notin {"get", "find"} THEN "act" ELSE "done"]

\* Lines 170-174, up to the first reply: manager.get(int(item_id)), whose
\* ValueError (from int() or from the zone's get) leads to manager.find; when
\* int() raises, find is the first call made.
IssueLookup(env, z, name, item_id) ==
    LET read == ZoneCall(env, z)
    IN  IF ~IsNumeric(item_id)
        THEN LookupResult(read, <<"find">>, name)
        ELSE IF read.kind = "raise" /\ read.exc = "ValueError"
        THEN [out |-> NoOutcome, calls |-> <<"get">>, next |-> "find"]
        ELSE LookupResult(read, <<"get">>, name)

\* Line 174: manager.find(name=item_id) after the zone's get raised ValueError.
IssueFind(env, z, name, looked) ==
    LookupResult(ZoneCall(env, z), Append(looked.calls, "find"), name)

\* Lines 180-182: getattr(result, method_name)() on what the lookup returned.
IssueAction(env, z, name, looked) ==
    [out |-> ZoneAction(env, z), calls |-> Append(looked.calls, name)]

\* The whole function: its result and the calls it made, in order.
_issue_novaclient_command(env, z, name, item_id) ==
    LET first == IssueLookup(env, z, name, item_id)
        looked == IF first.next = "find" THEN IssueFind(env, z, name, first) ELSE first
    IN  IF looked.next = "act"
        THEN IssueAction(env, z, name, looked)
        ELSE [out |-> looked.out, calls |-> looked.calls]

(***************************************************************************)
(* call_zone_method (lines 118-120, 139-145): the normalised ignore list   *)
(* and the error trap around the collection method.                        *)
(***************************************************************************)
IgnoreNone == [t |-> "none", name |-> "None", elems |-> <<>>]
IgnoreType(e) == [t |-> "type", name |-> e, elems |-> <<>>]
IgnoreList(s) == [t |-> "list", name |-> "", elems |-> s]
IgnoreInputs ==
    {IgnoreNone, IgnoreType("ErrA"), IgnoreList(<<"ErrA">>), IgnoreList(<<"NotFound", "ErrA">>)}

NormaliseIgnore(given) ==
    IF given.t = "list" THEN given.elems
    ELSE <<given.name>>

ErrorTrapReraise(raw, ignore) == raw

_error_trap(raw, ignore) ==
    IF raw.kind = "raise" /\ (\E i \in 1..Len(ignore) : ignore[i] = raw.exc)
    THEN Return(None)
    ELSE raw

(***************************************************************************)
(* Green threads.  GreenPool.spawn schedules a thread; it starts and       *)
(* finishes whenever the hub runs it.                                      *)
(***************************************************************************)
NewTask(z) == [zone |-> z, client |-> 0, state |-> "spawned", out |-> NoOutcome,
               calls |-> <<>>]

ImapSpawnDropsLast(zones) == [i \in 1..(Len(zones) - 1) |-> NewTask(zones[i])]

\* green_pool.imap(f, zone_list) (lines 160-161): one green thread per element.
imap_spawn(zones) == [i \in 1..Len(zones) |-> NewTask(zones[i])]

\* pool.waitall() (line 149): every spawned green thread has finished.
waitall(ts) == \A t \in 1..Len(ts) : ts[t].state = "done"

\* GreenThread.wait() / GreenMap.next(): the thread has finished.
TaskDone(ts, t) == ts[t].state = "done"

\* The index of the first task, in spawn order, that ended in an exception.
FirstRaise(ts) ==
    LET raised == {t \in 1..Len(ts) : ts[t].out.kind = "raise"}
    IN  IF raised = {} THEN 0 ELSE CHOOSE t \in raised : \A u \in raised : t <= u

\* Line 150: [(zone.id, res.wait()) for zone, res in results].
CollectResults(ts) ==
    IF FirstRaise(ts) # 0 THEN ts[FirstRaise(ts)].out
    ELSE Return([t \in 1..Len(ts) |-> TupleVal(<<IntVal(ts[t].zone), ts[t].out.val>>)])

(***************************************************************************)
(* reroute_compute.unmarshall_result (lines 307-328).                      *)
(***************************************************************************)
SanitizedKeepsManager(server) ==
    [k \in {k \in DOMAIN server : k[1] # "_"} |-> server[k]]

Sanitized(server) ==
    [k \in {k \in DOMAIN server : ~(k[1] = "_" \/ k = F_manager)} |-> server[k]]

\* The objects of zone_responses after the loop of lines 315-325: the keys are
\* deleted from each truthy response's own __dict__, up to the first response
\* that has none.
StrippedInPlace(zone_responses) ==
    LET bad == {i \in 1..Len(zone_responses) :
                   Truthy(zone_responses[i]) /\ zone_responses[i].t # "res"}
    IN  [i \in 1..Len(zone_responses) |->
            IF zone_responses[i].t = "res" /\ \A j \in bad : i < j
            THEN ResVal(Sanitized(zone_responses[i].v))
            ELSE zone_responses[i]]

UnmarshallNoSkip(zone_responses) ==
    IF \E i \in 1..Len(zone_responses) : zone_responses[i].t # "res"
    THEN Raise("AttributeError", None)
    ELSE IF Len(zone_responses) > 0
    THEN Return(DictVal([k \in {"server"} |-> Sanitized(zone_responses[1].v)]))
    ELSE Return(DictVal(<<>>))

UnmarshallLastWins(zone_responses) ==
    LET kept == SelectSeq(zone_responses, Truthy)
    IN  IF Len(kept) > 0
        THEN Return(DictVal([k \in {"server"} |-> Sanitized(kept[Len(kept)].v)]))
        ELSE Return(DictVal(<<>>))

unmarshall_result(zone_responses) ==
    LET kept == SelectSeq(zone_responses, Truthy)
    IN  IF \E i \in 1..Len(kept) : kept[i].t # "res"
        THEN Raise("AttributeError", None)
        ELSE IF Len(kept) > 0
        THEN Return(DictVal([k \in {"server"} |-> Sanitized(kept[1].v)]))
        ELSE Return(DictVal(<<>>))

(***************************************************************************)
(* A request: wrapped_f is called (line 246) with some arguments, against  *)
(* some local db, flag and zone directory.                                 *)
(***************************************************************************)
CallWrappedF ==
    /\ pc = "idle"
    /\ \E id \in Identifiers, db \in [UuidNames -> 0..MaxLocalId],
          flag \in BOOLEAN, dir \in Directories :
         \E shape \in CallShapes(id) :
            /\ call' = shape
            /\ f_args' = shape
            /\ instances' = db
            /\ enable_zone_routing' = flag
            /\ directory' = dir
    /\ pc' = "wrapped_f"
    /\ UNCHANGED <<zone_table, item, attempt_reroute, handler_calls, resolver_reads, dir_reads,
                   outcome, response, fanVars>>

WrappedFLookup ==
    /\ pc = "wrapped_f"
    /\ LET r == wrapped_f_lookup(call.args, call.kwargs, instances)
       IN  /\ item' = r.item
           /\ attempt_reroute' = r.attempt_reroute
           /\ f_args' = [args |-> r.args, kwargs |-> r.kwargs]
           /\ resolver_reads' = resolver_reads + r.resolver_reads
           /\ IF r.err # ""
              THEN outcome' = Raise(r.err, None) /\ pc' = "returned"
              ELSE outcome' = outcome /\ pc' = "dispatch"
    /\ UNCHANGED <<envVars, call, handler_calls, dir_reads, response, fanVars>>

(***************************************************************************)
(* wrapped_f, lines 270-273: reroute to the child zones, or call f.        *)
(***************************************************************************)
WrappedFDispatch ==
    /\ pc = "dispatch"
    /\ IF attempt_reroute
       THEN LET r == _route_to_child_zones(enable_zone_routing, directory, item)
            IN  /\ outcome' = r.out
                /\ dir_reads' = dir_reads + r.dir_reads
                /\ UNCHANGED handler_calls
       ELSE /\ handler_calls' = Append(handler_calls, f_args)
            /\ outcome' = Return(HandlerValue(f_args))
            /\ UNCHANGED dir_reads
    /\ pc' = "returned"
    /\ UNCHANGED <<envVars, call, item, f_args, attempt_reroute, resolver_reads, response,
                   fanVars>>

(***************************************************************************)
(* new_f of redirect_handler (lines 332-336) hands the call's result to    *)
(* its caller.                                                             *)
(***************************************************************************)
RedirectHandlerReturn ==
    /\ pc = "returned"
    /\ response' = redirect_handler(outcome)
    /\ pc' = "responded"
    /\ UNCHANGED <<envVars, call, item, f_args, attempt_reroute, handler_calls,
                   resolver_reads, dir_reads, outcome, fanVars>>

(***************************************************************************)
(* child_zone_helper(zone_list, func) (lines 153-161), func being          *)
(* wrap_novaclient_function(_issue_novaclient_command, collection,         *)
(* method_name, item_id) (lines 185-191).  GreenPool.imap spawns one       *)
(* green thread per zone running _process(func, zone); the list            *)
(* comprehension takes their results in order.                             *)
(***************************************************************************)
CallChildZoneHelper ==
    /\ pc = "idle"
    /\ \E zones \in Directories, m \in MethodNames, id \in {IntVal(1), UuidVal(1)} :
         \E env \in ZoneEnvs(zones) :
            /\ zone_list' = zones
            /\ zone_urls' = zone_table
            /\ zone_env' = env
            /\ method_name' = m
            /\ op_item' = id
            /\ tasks' = imap_spawn(zones)
    /\ fanout' = "child_zone_helper"
    /\ idx' = 1
    /\ pc' = "imap"
    /\ UNCHANGED <<envVars, execVars, dir_reads, outcome, errors_to_ignore, collected,
                   collection_method, contacted, skipped, aggregated, finish_order>>

\* _process, lines 110-111: build a client for the api_url of the zone object
\* and authenticate.
ProcessAuthenticate(t) ==
    /\ fanout = "child_zone_helper"
    /\ tasks[t].state = "spawned"
    /\ LET url == zone_urls[tasks[t].zone]
       IN  /\ contacted' = contacted \cup {url}
           /\ tasks' = IF zone_env[url] = "authfail"
                       THEN [tasks EXCEPT ![t].state = "done",
                                          ![t].out = Raise("BadRequest", None)]
                       ELSE [tasks EXCEPT ![t].state = "running", ![t].client = url]
           /\ finish_order' = IF zone_env[url] = "authfail"
                              THEN Append(finish_order, t) ELSE finish_order
    /\ UNCHANGED <<pc, envVars, execVars, dir_reads, outcome, fanInputs, idx, collected,
                   collection_method, skipped, aggregated>>

\* _process, line 112: func(nova, zone), up to the reply to its first lookup
\* (lines 170-173).  The green thread waits on each reply of the zone, so
\* other threads and the caller run before its next step.
ProcessFuncLookup(t) ==
    /\ fanout = "child_zone_helper"
    /\ tasks[t].state = "running"
    /\ LET r == IssueLookup(zone_env, tasks[t].client, method_name, op_item)
       IN  /\ tasks' = [tasks EXCEPT
                          ![t].state = IF r.next = "find" THEN "finding"
                                       ELSE IF r.next = "act" THEN "acting" ELSE "done",
                          ![t].out = IF r.next = "done" THEN r.out ELSE NoOutcome,
                          ![t].calls = r.calls]
           /\ finish_order' = IF r.next = "done" THEN Append(finish_order, t)
                              ELSE finish_order
    /\ UNCHANGED <<pc, envVars, execVars, dir_reads, outcome, fanInputs, idx, collected,
                   collection_method, contacted, skipped, aggregated>>

\* func(nova, zone), line 174: the reply to the find sent after the zone's get
\* raised ValueError.
ProcessFuncFind(t) ==
    /\ fanout = "child_zone_helper"
    /\ tasks[t].state = "finding"
    /\ LET r == IssueFind(zone_env, tasks[t].client, method_name,
                          [calls |-> tasks[t].calls])
       IN  /\ tasks' = [tasks EXCEPT
                          ![t].state = IF r.next = "act" THEN "acting" ELSE "done",
                          ![t].out = IF r.next = "done" THEN r.out ELSE NoOutcome,
                          ![t].calls = r.calls]
           /\ finish_order' = IF r.next = "done" THEN Append(finish_order, t)
                              ELSE finish_order
    /\ UNCHANGED <<pc, envVars, execVars, dir_reads, outcome, fanInputs, idx, collected,
                   collection_method, contacted, skipped, aggregated>>

\* func(nova, zone), lines 180-182: the method called on the looked-up
\* resource returns.
ProcessFuncAction(t) ==
    /\ fanout = "child_zone_helper"
    /\ tasks[t].state = "acting"
    /\ LET r == IssueAction(zone_env, tasks[t].client, method_name,
                            [calls |-> tasks[t].calls])
       IN  tasks' = [tasks EXCEPT ![t].state = "done", ![t].out = r.out,
                                  ![t].calls = r.calls]
    /\ finish_order' = Append(finish_order, t)
    /\ UNCHANGED <<pc, envVars, execVars, dir_reads, outcome, fanInputs, idx, collected,
                   collection_method, contacted, skipped, aggregated>>

\* Lines 160-161: the list comprehension takes the next result of imap, which
\* re-raises the exception of a thread that ended in one.
ChildZoneHelperNext ==
    /\ pc = "imap"
    /\ IF idx <= Len(tasks)
       THEN /\ TaskDone(tasks, idx)
            /\ IF tasks[idx].out.kind = "raise"
               THEN /\ outcome' = tasks[idx].out
                    /\ pc' = "fan_done"
                    /\ UNCHANGED <<idx, collected>>
               ELSE /\ collected' = Append(collected, tasks[idx].out.val)
                    /\ idx' = idx + 1
                    /\ UNCHANGED <<pc, outcome>>
       ELSE /\ outcome' = Return(collected)
            /\ pc' = "fan_done"
            /\ UNCHANGED <<idx, collected>>
    /\ UNCHANGED <<envVars, execVars, dir_reads, fanInputs, tasks, collection_method,
                   contacted, skipped, aggregated, finish_order>>

(***************************************************************************)
(* The caller of _call_child_zones reduces the returned list (lines        *)
(* 238-243: unmarshall_result(result)).                                    *)
(***************************************************************************)
UnmarshallResult ==
    /\ pc = "fan_done"
    /\ fanout = "child_zone_helper"
    /\ outcome.kind = "return"
    /\ aggregated' = unmarshall_result(outcome.val)
    /\ outcome' = Return(StrippedInPlace(outcome.val))
    /\ collected' = StrippedInPlace(collected)
    /\ tasks' = [t \in 1..Len(tasks) |->
                    [tasks[t] EXCEPT !.out = Return(StrippedInPlace(<<tasks[t].out.val>>)[1])]]
    /\ pc' = "reduced"
    /\ UNCHANGED <<envVars, execVars, dir_reads, fanInputs, idx, collection_method,
                   contacted, skipped, finish_order>>

(***************************************************************************)
(* call_zone_method (lines 115-150).                                       *)
(***************************************************************************)
CallCallZoneMethod ==
    /\ pc = "idle"
    /\ \E zones \in Directories, ign \in IgnoreInputs :
         \E env \in ZoneEnvs(zones) :
            /\ directory' = zones
            /\ zone_list' = zones
            /\ zone_urls' = zone_table
            /\ zone_env' = env
            /\ errors_to_ignore' = NormaliseIgnore(ign)
    /\ dir_reads' = dir_reads + 1
    /\ fanout' = "call_zone_method"
    /\ idx' = 1
    /\ pc' = "spawning"
    /\ UNCHANGED <<instances, enable_zone_routing, zone_table, execVars, outcome,
                   method_name, op_item, tasks, collected, collection_method, contacted, skipped, aggregated, finish_order>>

\* One iteration of the loop of lines 124-148: authenticate, and either skip the
\* zone or bind collection_method, spawn _error_trap and record (zone, res).
SpawnLoop ==
    /\ pc = "spawning"
    /\ idx <= Len(zone_list)
    /\ LET z == zone_list[idx]
           url == zone_urls[z]
       IN  /\ contacted' = contacted \cup {url}
           /\ IF zone_env[url] = "authfail"
              THEN /\ skipped' = Append(skipped, z)
                   /\ UNCHANGED <<collection_method, tasks>>
              ELSE /\ collection_method' = url
                   /\ tasks' = Append(tasks, NewTask(z))
                   /\ UNCHANGED skipped
    /\ idx' = idx + 1
    /\ UNCHANGED <<pc, envVars, execVars, dir_reads, outcome, fanInputs, collected,
                   aggregated, finish_order>>

\* A spawned _error_trap starts: it reads the variable collection_method of the
\* enclosing call (line 141), whatever the loop has bound it to by then.
ErrorTrapStart(t) ==
    /\ fanout = "call_zone_method"
    /\ tasks[t].state = "spawned"
    /\ tasks' = [tasks EXCEPT ![t].state = "running", ![t].client = collection_method]
    /\ UNCHANGED <<pc, envVars, execVars, dir_reads, outcome, fanInputs, idx, collected,
                   collection_method, contacted, skipped, aggregated, finish_order>>

\* The collection method returns or raises inside _error_trap (lines 141-145).
ErrorTrapFinish(t) ==
    /\ fanout = "call_zone_method"
    /\ tasks[t].state = "running"
    /\ tasks' = [tasks EXCEPT ![t].state = "done",
                              ![t].out = _error_trap(ZoneCall(zone_env, tasks[t].client),
                                                      errors_to_ignore)]
    /\ finish_order' = Append(finish_order, t)
    /\ UNCHANGED <<pc, envVars, execVars, dir_reads, outcome, fanInputs, idx, collected,
                   collection_method, contacted, skipped, aggregated>>

\* Lines 149-150: pool.waitall(), then the list of (zone.id, res.wait()).
WaitAllAndReturn ==
    /\ pc = "spawning"
    /\ idx > Len(zone_list)
    /\ waitall(tasks)
    /\ outcome' = CollectResults(tasks)
    /\ pc' = "fan_done"
    /\ UNCHANGED <<envVars, execVars, dir_reads, fanInputs, tasks, idx, collected,
                   collection_method, contacted, skipped, aggregated, finish_order>>

(***************************************************************************)
(* zone_create, zone_delete and zone_update (lines 68-77), called by other *)
(* requests while a call_zone_method is between its read of the zone table *)
(* (line 124) and its return: they change the table, not the list being    *)
(* iterated nor the zone objects in it.                                    *)
(***************************************************************************)
zone_create ==
    /\ pc = "spawning"
    /\ Len(directory) < MaxZones
    /\ \E z \in ZoneIds :
         /\ \A i \in 1..Len(directory) : directory[i] # z
         /\ directory' = Append(directory, z)
    /\ UNCHANGED <<pc, instances, enable_zone_routing, zone_table, execVars, dir_reads,
                   outcome, fanVars>>

zone_delete ==
    /\ pc = "spawning"
    /\ \E i \in 1..Len(directory) :
         directory' = [j \in 1..(Len(directory) - 1) |->
                          IF j < i THEN directory[j] ELSE directory[j + 1]]
    /\ UNCHANGED <<pc, instances, enable_zone_routing, zone_table, execVars, dir_reads,
                   outcome, fanVars>>

\* zone_update(context, zone_id, data): a registered zone gets another api_url.
zone_update ==
    /\ pc = "spawning"
    /\ \E i \in 1..Len(directory), url \in ZoneIds :
         /\ url # zone_table[directory[i]]
         /\ zone_table' = [zone_table EXCEPT ![directory[i]] = url]
    /\ UNCHANGED <<pc, instances, enable_zone_routing, directory, execVars, dir_reads,
                   outcome, fanVars>>

vars == <<pc, instances, enable_zone_routing, directory, zone_table, call, item, f_args,
          attempt_reroute, handler_calls, resolver_reads, dir_reads, outcome, response,
          fanout, zone_list, zone_urls, zone_env, errors_to_ignore, method_name, op_item,
          tasks, idx, collected, collection_method, contacted, skipped, finish_order, aggregated>>

Init ==
    /\ pc = "idle"
    /\ instances = [u \in UuidNames |-> 0]
    /\ enable_zone_routing = FALSE
    /\ directory = <<>>
    /\ zone_table = [z \in ZoneIds |-> z]
    /\ call = [args |-> <<>>, kwargs |-> <<>>]
    /\ f_args = [args |-> <<>>, kwargs |-> <<>>]
    /\ item = None
    /\ attempt_reroute = FALSE
    /\ handler_calls = <<>>
    /\ resolver_reads = 0
    /\ dir_reads = 0
    /\ outcome = NoOutcome
    /\ response = NoOutcome
    /\ fanout = ""
    /\ zone_list = <<>>
    /\ zone_urls = [z \in ZoneIds |-> z]
    /\ zone_env = [z \in ZoneIds |-> "found"]
    /\ errors_to_ignore = <<>>
    /\ method_name = "get"
    /\ op_item = None
    /\ tasks = <<>>
    /\ idx = 1
    /\ collected = <<>>
    /\ collection_method = 0
    /\ contacted = {}
    /\ skipped = <<>>
    /\ finish_order = <<>>
    /\ aggregated = NoOutcome

Next ==
    \/ CallWrappedF
    \/ WrappedFLookup
    \/ WrappedFDispatch
    \/ RedirectHandlerReturn
    \/ CallChildZoneHelper
    \/ \E t \in 1..Len(tasks) : ProcessAuthenticate(t)
    \/ \E t \in 1..Len(tasks) : ProcessFuncLookup(t)
    \/ \E t \in 1..Len(tasks) : ProcessFuncFind(t)
    \/ \E t \in 1..Len(tasks) : ProcessFuncAction(t)
    \/ ChildZoneHelperNext
    \/ UnmarshallResult
    \/ CallCallZoneMethod
    \/ SpawnLoop
    \/ \E t \in 1..Len(tasks) : ErrorTrapStart(t)
    \/ \E t \in 1..Len(tasks) : ErrorTrapFinish(t)
    \/ WaitAllAndReturn
    \/ zone_create
    \/ zone_delete
    \/ zone_update

Spec == Init /\ [][Next]_vars

(***************************************************************************)
(* The operations of a rerouted call alone: wrapped_f, child_zone_helper   *)
(* and the reduction of its list.  call_zone_method, and the changes of    *)
(* the zone table that run beside it, are left to Spec.                    *)
(***************************************************************************)
NextRouting ==
    \/ CallWrappedF
    \/ WrappedFLookup
    \/ WrappedFDispatch
    \/ RedirectHandlerReturn
    \/ CallChildZoneHelper
    \/ \E t \in 1..Len(tasks) : ProcessAuthenticate(t)
    \/ \E t \in 1..Len(tasks) : ProcessFuncLookup(t)
    \/ \E t \in 1..Len(tasks) : ProcessFuncFind(t)
    \/ \E t \in 1..Len(tasks) : ProcessFuncAction(t)
    \/ ChildZoneHelperNext
    \/ UnmarshallResult

SpecRouting == Init /\ [][NextRouting]_vars

(***************************************************************************)
(* Both fan-outs with the zone table left alone.  zone_create, zone_delete *)
(* and zone_update change directory and zone_table only, and no other      *)
(* action reads these two once its operation has started, so a property    *)
(* that mentions neither holds here exactly when it holds under Spec.      *)
(***************************************************************************)
NextFanOut ==
    \/ NextRouting
    \/ CallCallZoneMethod
    \/ SpawnLoop
    \/ \E t \in 1..Len(tasks) : ErrorTrapStart(t)
    \/ \E t \in 1..Len(tasks) : ErrorTrapFinish(t)
    \/ WaitAllAndReturn

SpecFanOut == Init /\ [][NextFanOut]_vars

(***************************************************************************)
(* Properties of wrapped_f (Execute).                                      *)
(***************************************************************************)
\* The identifier the caller passed, as the wrapper extracts it.
CallId == get_collection_context_and_id(call.args, call.kwargs).id
InExecute == pc \in {"wrapped_f", "dispatch", "returned", "responded"}
ExecuteEnded == pc \in {"returned", "responded"}
LocalMiss == is_uuid_like(CallId) /\ instances[CallId.v] = 0
NoFanOut == dir_reads = 0 /\ contacted = {} /\ tasks = <<>>

\* C1: a call whose identifier is not UUID-like never reads the zone directory
\* and never contacts a zone, and it ends with f invoked exactly once, with the
\* args and kwargs of the call unchanged.
C1_LocalIdentifierStaysLocal ==
    (InExecute /\ ~is_uuid_like(CallId)) =>
        /\ NoFanOut
        /\ ExecuteEnded => (handler_calls = <<call>> /\ outcome = Return(HandlerValue(call)))

C1_Witness ==
    /\ pc = "responded"
    /\ CallId = IntVal(2)
    /\ "instance_id" \in DOMAIN call.kwargs
    /\ handler_calls = <<call>>

\* C2: for a UUID that resolves locally, f is invoked once with the resolved
\* integer id in the place of the UUID (positional or keyword), every other
\* argument is unchanged, and the UUID appears nowhere in what f receives.
C2_ResolvedHandleSubstituted ==
    (ExecuteEnded /\ is_uuid_like(CallId) /\ instances[CallId.v] # 0) =>
        /\ Len(handler_calls) = 1
        /\ LET h == handler_calls[1]
               handle == IntVal(instances[CallId.v])
           IN  /\ Len(h.args) = Len(call.args)
               /\ DOMAIN h.kwargs = DOMAIN call.kwargs
               /\ \A i \in 1..Len(h.args) :
                     h.args[i] = IF call.args[i] = CallId THEN handle ELSE call.args[i]
               /\ \A k \in DOMAIN h.kwargs :
                     h.kwargs[k] = IF call.kwargs[k] = CallId THEN handle ELSE call.kwargs[k]
               /\ \/ \E i \in 1..Len(h.args) : h.args[i] = handle
                  \/ \E k \in DOMAIN h.kwargs : h.kwargs[k] = handle

C2_Witness ==
    /\ pc = "responded"
    /\ CallId = UuidVal(1)
    /\ instances[1] = 2
    /\ "instance_id" \notin DOMAIN call.kwargs
    /\ Len(handler_calls) = 1
    /\ handler_calls[1].args[3] = IntVal(2)

\* C3: with routing disabled, a UUID that misses locally makes the call fail
\* with InstanceNotFound for that UUID, with no fan-out and f not invoked.
C3_RoutingDisabledIsNotFound ==
    (ExecuteEnded /\ LocalMiss /\ ~enable_zone_routing) =>
        /\ outcome = Raise("InstanceNotFound", CallId)
        /\ NoFanOut
        /\ handler_calls = <<>>

\* C4: with routing enabled and no registered zone, a UUID that misses locally
\* makes the call fail with InstanceNotFound for that UUID; no task is started
\* and f is not invoked.
C4_NoChildZonesIsNotFound ==
    (ExecuteEnded /\ LocalMiss /\ enable_zone_routing /\ directory = <<>>) =>
        /\ outcome = Raise("InstanceNotFound", CallId)
        /\ tasks = <<>>
        /\ handler_calls = <<>>

\* C5: with routing enabled and registered zones, a local miss ends in
\* RedirectResult after one read of the zone directory, f is not invoked, and
\* the redirect_handler boundary returns the carried results; on the local
\* path the boundary returns f's value.
C5_MissEndsInRedirectResult ==
    /\ (pc = "responded" /\ LocalMiss /\ enable_zone_routing /\ directory # <<>>) =>
          /\ outcome.kind = "raise"
          /\ outcome.exc = "RedirectResult"
          /\ dir_reads = 1
          /\ handler_calls = <<>>
          /\ response = Return(outcome.val)
    /\ (pc = "responded" /\ ~LocalMiss) => response = outcome

(***************************************************************************)
(* Properties of the fan-outs (child_zone_helper, call_zone_method).       *)
(***************************************************************************)
FanEnded == pc \in {"fan_done", "reduced"}
ListedZones == {zone_list[i] : i \in 1..Len(zone_list)}
AllTasksDone == \A t \in 1..Len(tasks) : tasks[t].state = "done"

\* C6: when the only failures are authentication failures, the fan-out still
\* returns, with one outcome for every zone that authenticated.
C6_AuthFailureSkipsZoneOnly ==
    (/\ FanEnded
     /\ \E z \in ListedZones : zone_env[z] = "authfail"
     /\ \A z \in ListedZones : zone_env[z] \in {"authfail", "found", "act_none"}) =>
        /\ outcome.kind = "return"
        /\ Len(outcome.val) = Cardinality({z \in ListedZones : zone_env[z] # "authfail"})

\* C7: a zone task ending in an error that is neither not-found nor an
\* authentication failure nor ignored leaves the fan-out returning, with an
\* outcome for every zone.
C7_ErrorSurfacedAsOutcome ==
    (/\ FanEnded
     /\ \A z \in ListedZones : zone_env[z] \in {"found", "act_none", "ErrA"}
     /\ \E t \in 1..Len(tasks) : tasks[t].out = Raise("ErrA", None)) =>
        /\ outcome.kind = "return"
        /\ Len(outcome.val) = Len(zone_list)

\* The outcome values of call_zone_method's (zone id, outcome) pairs, and the
\* response expected for zone z's resource.
Ignored(e) == \E i \in 1..Len(errors_to_ignore) : errors_to_ignore[i] = e
OutcomeValues == [i \in 1..Len(outcome.val) |-> outcome.val[i].v[2]]
PublicPayload(z) == [k \in {F_id, F_name} |-> Payload(z).v[k]]
ServerOf(z) == Return(DictVal([k \in {"server"} |-> PublicPayload(z)]))

\* C8: in call_zone_method an error of a type listed in errors_to_ignore gives
\* None for that task and does not fail the call; and with zones [Z1, Z2], Z1
\* raising such an error (NotFound in the reroute fan-out, whose tasks recover
\* only that) and Z2 returning its resource, unmarshall_result over the
\* returned outcomes gives Z2's resource without its private and manager keys.
C8_AllowListedErrorIsNotFound ==
    /\ (pc = "fan_done" /\ fanout = "call_zone_method") =>
          /\ \A t \in 1..Len(tasks) :
                LET raw == ZoneCall(zone_env, tasks[t].client)
                IN  (raw.kind = "raise" /\ Ignored(raw.exc)) => tasks[t].out = Return(None)
          /\ (\A t \in 1..Len(tasks) :
                LET raw == ZoneCall(zone_env, tasks[t].client)
                IN  raw.kind = "raise" => Ignored(raw.exc)) => outcome.kind = "return"
          /\ (/\ Len(zone_list) = 2
              /\ zone_env[zone_list[1]] \in {"NotFound", "ErrA"}
              /\ Ignored(zone_env[zone_list[1]])
              /\ zone_env[zone_list[2]] = "found") =>
                 /\ outcome.kind = "return"
                 /\ unmarshall_result(OutcomeValues) = ServerOf(zone_list[2])
    /\ (/\ pc = "reduced"
        /\ Len(zone_list) = 2
        /\ zone_env[zone_list[1]] = "NotFound"
        /\ zone_env[zone_list[2]] = "found"
        /\ method_name = "get") => aggregated = ServerOf(zone_list[2])

C8_Witness ==
    /\ pc = "fan_done"
    /\ fanout = "call_zone_method"
    /\ zone_list = <<1, 2>>
    /\ zone_env[1] = "ErrA"
    /\ Ignored("ErrA")
    /\ zone_env[2] = "found"
    /\ tasks[1].client = 1
    /\ tasks[1].out = Return(None)
    /\ outcome = Return(<<TupleVal(<<IntVal(1), None>>), TupleVal(<<IntVal(2), Payload(2)>>)>>)

\* C9: a fan-out that has handed control back to its caller, with a list or
\* with an error, has every one of its green threads finished, whatever the
\* order they ran in; the reduction runs only after that.
C9_Barrier ==
    /\ FanEnded => (AllTasksDone /\ Len(finish_order) = Len(tasks))
    /\ pc = "reduced" => AllTasksDone

\* What the fan-out should return for zone z: the outcome of z's own operation.
OwnOutcome(z) ==
    IF fanout = "call_zone_method"
    THEN TupleVal(<<IntVal(z), _error_trap(ZoneCall(zone_env, z), errors_to_ignore).val>>)
    ELSE _issue_novaclient_command(zone_env, z, method_name, op_item).out.val

\* C10: the i-th outcome a fan-out returns is the outcome of the operation on
\* the i-th zone, one per zone (in call_zone_method: per zone that was given
\* a green thread), whatever the order the green threads ran in.
C10_OutcomesInSnapshotOrder ==
    (pc = "fan_done" /\ outcome.kind = "return") =>
        /\ Len(outcome.val) = Len(tasks)
        /\ \A i \in 1..Len(tasks) : outcome.val[i] = OwnOutcome(tasks[i].zone)

\* The zones of the snapshot whose authentication succeeds, in snapshot order.
AuthOk(z) == zone_env[z] # "authfail"
AuthenticatedZones == SelectSeq(zone_list, AuthOk)
TaskZones == [t \in 1..Len(tasks) |-> tasks[t].zone]
InFanOut == fanout # ""

\* C11 as claimed: every fan-out has exactly one task per zone of the snapshot,
\* none left without a task.
C11_OneTaskPerZone ==
    FanEnded => TaskZones = zone_list

\* C11 as amended: child_zone_helper starts exactly one task per zone of its
\* list; call_zone_method starts exactly one task per zone of the snapshot
\* whose authentication succeeded and none for a zone whose authentication
\* failed; never more tasks than zones, never two tasks for one zone, and all
\* the tasks can be running at once.
C11_OneTaskPerAuthenticatedZone ==
    InFanOut =>
        /\ Len(tasks) <= Len(zone_list)
        /\ \A t, u \in 1..Len(tasks) : t # u => tasks[t].zone # tasks[u].zone
        /\ fanout = "child_zone_helper" => TaskZones = zone_list
        /\ (fanout = "call_zone_method" /\ idx > Len(zone_list)) =>
              TaskZones = AuthenticatedZones

C11_Witness ==
    /\ fanout = "call_zone_method"
    /\ Len(zone_list) = 2
    /\ Len(tasks) = 2
    /\ \A t \in 1..Len(tasks) : tasks[t].state = "running"

(***************************************************************************)
(* Properties of unmarshall_result, on the lists child_zone_helper         *)
(* returns.                                                                *)
(***************************************************************************)
Reduced == pc = "reduced"
IsReadMethod == method_name \in {"get", "GET"}
FoundAt == {i \in 1..Len(outcome.val) : outcome.val[i].t = "res"}
FirstFound == CHOOSE i \in FoundAt : \A j \in FoundAt : i <= j
EmptyPayload == Return(DictVal(<<>>))

\* C12: the reduction returns, under the key "server", fields of the first
\* found outcome in list order only, whatever precedes or follows it; with no
\* found outcome it returns the empty dict and raises nothing.
C12_FirstFoundWins ==
    Reduced =>
        IF FoundAt = {} THEN aggregated = EmptyPayload
        ELSE /\ aggregated.kind = "return"
             /\ aggregated.val.t = "dict"
             /\ DOMAIN aggregated.val.v = {"server"}
             /\ DOMAIN aggregated.val.v["server"] # {}
             /\ \A k \in DOMAIN aggregated.val.v["server"] :
                   /\ k \in DOMAIN outcome.val[FirstFound].v
                   /\ aggregated.val.v["server"][k] = outcome.val[FirstFound].v[k]

C12_Witness ==
    /\ Reduced
    /\ Len(outcome.val) = 2
    /\ FoundAt = {1, 2}
    /\ aggregated.val.v["server"][F_id] = outcome.val[1].v[F_id]
    /\ aggregated.val.v["server"][F_id] # outcome.val[2].v[F_id]

IsInternal(k) == k[1] = "_" \/ k = F_manager
Selected == outcome.val[FirstFound].v
ReduceStep == pc = "fan_done" /\ pc' = "reduced"

\* C13: the aggregated response a reduction produces has no field whose name
\* begins with "_" and no field "manager", and has every other field that the
\* selected payload had when the reduction started, with its value.
C13_Sanitized ==
    [][(ReduceStep /\ FoundAt # {}) =>
          LET server == aggregated'.val.v["server"]
          IN  /\ \A k \in DOMAIN server : ~IsInternal(k)
              /\ \A k \in DOMAIN Selected :
                    ~IsInternal(k) => (k \in DOMAIN server /\ server[k] = Selected[k])]_vars

C13_Witness ==
    /\ Reduced
    /\ FoundAt # {}
    /\ IsReadMethod
    /\ {F_info, F_manager} \subseteq DOMAIN Payload(zone_list[FirstFound]).v
    /\ DOMAIN aggregated.val.v["server"] = {F_id, F_name}
    /\ aggregated.val.v["server"][F_name] = Payload(zone_list[FirstFound]).v[F_name]

\* What the routing inputs alone determine: the reduction of each listed zone's
\* own result, in list order.
ResponseOfInputs ==
    unmarshall_result([i \in 1..Len(zone_list) |->
        _issue_novaclient_command(zone_env, zone_list[i], method_name, op_item).out.val])

\* C14: an Execute call that misses locally, with routing enabled and zones
\* registered, produces an aggregated response, and the aggregated response
\* of a fan-out is a function of the zone list, the remote state, the method
\* and the identifier only, whatever the order in which the zone tasks ran.
C14_SameInputsSameResponse ==
    /\ Reduced => aggregated = ResponseOfInputs
    /\ (ExecuteEnded /\ LocalMiss /\ enable_zone_routing /\ directory # <<>>) =>
          /\ outcome.kind = "raise"
          /\ outcome.exc = "RedirectResult"
          /\ outcome.val.t = "dict"

OutcomeZones == [i \in 1..Len(outcome.val) |-> outcome.val[i].v[1].v]

\* C15: a routing attempt of Execute reads the zone directory exactly once,
\* and so does call_zone_method; zones added to, removed from or changed in
\* the directory while the fan-out is in flight change neither the zones
\* contacted nor the order of the outcomes, which are those of the list read
\* at the start.
C15_DirectoryReadOnce ==
    /\ (ExecuteEnded /\ LocalMiss /\ enable_zone_routing) => dir_reads = 1
    /\ fanout = "call_zone_method" =>
          /\ dir_reads = 1
          /\ zone_urls = [z \in ZoneIds |-> z]
          /\ contacted \subseteq {zone_urls[z] : z \in ListedZones}
          /\ FanEnded => contacted = {zone_urls[z] : z \in ListedZones}
          /\ (FanEnded /\ outcome.kind = "return") => OutcomeZones = AuthenticatedZones

\* C16: in call_zone_method, whenever the green threads run, the thread
\* recorded with zone Z invokes the method of Z's own client, and the outcome
\* paired with Z's id is the result of that invocation.
C16_TaskUsesOwnZoneClient ==
    fanout = "call_zone_method" =>
        \A t \in 1..Len(tasks) :
            /\ tasks[t].state \in {"running", "done"} =>
                  tasks[t].client = zone_urls[tasks[t].zone]
            /\ tasks[t].state = "done" =>
                  tasks[t].out = _error_trap(ZoneCall(zone_env, tasks[t].zone),
                                             errors_to_ignore)

(***************************************************************************)
(* Properties of _issue_novaclient_command, as run by the green threads of *)
(* child_zone_helper.                                                      *)
(***************************************************************************)
\* Task t has returned and its result is as it returned it (not yet reduced).
ZoneTaskDone(t) ==
    /\ fanout = "child_zone_helper"
    /\ ~Reduced
    /\ tasks[t].state = "done"
    /\ zone_env[tasks[t].zone] # "authfail"
Lookups == {"get", "find"}

\* C17: a zone task makes exactly one lookup: get for an integer identifier,
\* find by name for one that is not an integer; when the zone reports
\* not-found the task returns None and raises nothing.
C17_LookupByIdOrName ==
    \A t \in 1..Len(tasks) :
        ZoneTaskDone(t) =>
            /\ Len(tasks[t].calls) >= 1
            /\ tasks[t].calls[1] = (IF op_item.t = "int" THEN "get" ELSE "find")
            /\ \A i \in 2..Len(tasks[t].calls) : tasks[t].calls[i] \notin Lookups
            /\ zone_env[tasks[t].zone] = "NotFound" =>
                  (tasks[t].out = Return(None) /\ Len(tasks[t].calls) = 1)

ReadOk(z) == zone_env[z] \in {"found", "act_none"}
Acted(t) == \E i \in 1..Len(tasks[t].calls) : tasks[t].calls[i] \notin Lookups

\* C18: a zone task calls the method on the resource exactly when its lookup
\* in that zone succeeded and the method is not get / find in any letter
\* case; the call comes after the lookup, is made on that zone's resource and
\* its return value is the task's result; otherwise nothing but the lookup is
\* called and the result is what the lookup gave.
C18_ActionOnlyAfterRead ==
    \A t \in 1..Len(tasks) :
      /\ (fanout = "child_zone_helper" /\ tasks[t].state \in {"spawned", "running"}) =>
            tasks[t].calls = <<>>
      /\ (fanout = "child_zone_helper" /\ tasks[t].state = "finding") =>
            tasks[t].calls = <<"get">>
      /\ (fanout = "child_zone_helper" /\ tasks[t].state = "acting") =>
            /\ tasks[t].calls # <<>>
            /\ ~Acted(t)
            /\ ReadOk(tasks[t].zone)
            /\ ~IsReadMethod
      /\ ZoneTaskDone(t) =>
            LET z == tasks[t].zone
                n == Len(tasks[t].calls)
            IN  /\ Acted(t) <=> (ReadOk(z) /\ ~IsReadMethod)
                /\ Acted(t) =>
                      /\ n >= 2
                      /\ \A i \in 1..(n - 1) : tasks[t].calls[i] \in Lookups
                      /\ tasks[t].calls[n] = method_name
                      /\ tasks[t].client = zone_urls[z]
                      /\ tasks[t].out = ZoneAction(zone_env, z)
                /\ (~Acted(t) /\ ReadOk(z)) => tasks[t].out = Return(Payload(z))
                /\ (~Acted(t) /\ zone_env[z] = "NotFound") => tasks[t].out = Return(None)

C18_Witness ==
    \E t \in 1..Len(tasks) :
        /\ ZoneTaskDone(t)
        /\ method_name = "pause"
        /\ tasks[t].calls = <<"find", "pause">>
        /\ tasks[t].out = Return(ActionPayload(tasks[t].zone))

\* C19: a finished call of wrapped_f ended in f's own result, in
\* InstanceNotFound or in RedirectResult; f was invoked at most once, and not
\* at all in a call that read the zone directory or contacted a zone.
C19_ThreeOutcomes ==
    ExecuteEnded =>
        /\ \/ (handler_calls = <<f_args>> /\ outcome = Return(HandlerValue(f_args)))
           \/ (handler_calls = <<>> /\ outcome.kind = "raise"
                                    /\ outcome.exc = "InstanceNotFound")
           \/ (handler_calls = <<>> /\ outcome.kind = "raise"
                                    /\ outcome.exc = "RedirectResult")
        /\ Len(handler_calls) <= 1
        /\ handler_calls # <<>> => NoFanOut

\* The zones of the list on which the method returns a non-empty result.
ActionYields == {i \in 1..Len(zone_list) : zone_env[zone_list[i]] = "found"}
FirstYield == CHOOSE i \in ActionYields : \A j \in ActionYields : i <= j
PublicActionPayload(z) == [k \in {F_id, F_name} |-> ActionPayload(z).v[k]]
\* The same remote state with the resource absent wherever the method on it
\* returns None.
EmptyAsNotFound ==
    [z \in ZoneIds |-> IF zone_env[z] = "act_none" THEN "NotFound" ELSE zone_env[z]]

\* C20: a zone where the method succeeds and returns None contributes nothing:
\* the aggregated response is the payload of the first zone whose method
\* returned an object, or the empty dict, and it equals the response obtained
\* when the resource does not exist in the zones that returned None.
C20_EmptyResultIsNotFound ==
    (Reduced /\ ~IsReadMethod) =>
        /\ aggregated =
              IF ActionYields = {} THEN EmptyPayload
              ELSE Return(DictVal([k \in {"server"} |->
                                      PublicActionPayload(zone_list[FirstYield])]))
        /\ aggregated =
              unmarshall_result([i \in 1..Len(zone_list) |->
                  _issue_novaclient_command(EmptyAsNotFound, zone_list[i], method_name,
                                            op_item).out.val])

C20_Witness ==
    /\ Reduced
    /\ method_name = "pause"
    /\ Len(zone_list) = 2
    /\ zone_env[zone_list[1]] = "act_none"
    /\ zone_env[zone_list[2]] = "found"
    /\ Len(tasks[1].calls) = 2
    /\ tasks[1].out = Return(None)
    /\ aggregated = Return(DictVal([k \in {"server"} |-> PublicActionPayload(zone_list[2])]))

====
